---- MODULE Spec2Model ----
(***************************************************************************)
(* The149 store: the ledger kept by the backend (tables balances,          *)
(* categories, sales, expenses, deposits, their triggers and the stored    *)
(* procedure handle_expense) and the client store (zustand) that mirrors   *)
(* it and dispatches the mutations.                                        *)
(***************************************************************************)
EXTENDS Integers, Sequences, FiniteSets, TLC

\* ---------------------------------------------------------------- bounds
\* Largest stock a stock adjustment asks for.
MaxStock == 1
\* Cap on the number of handler calls in one run.
MaxCalls == 2

\* The two clients (browser sessions) and the task each one runs.
Clients == {"A", "B"}
Tasks == {"t1", "t2"}
\* Two handlers of client A that overlap (two clicks, two change events).
OverlappingTasks == {"a1", "a2"}
Owner(t) == IF t \in {"t1", "a1", "a2"} THEN "A" ELSE "B"

\* The users that have signed up: the clients' users and one more.
Users == Clients \cup {"C"}
Designations == {"Owner", "Store Manager"}

\* The categories that exist, and their prices.
CatIds == {"k1", "k2"}
InitialPrice(k) == IF k = "k1" THEN 20 ELSE 80

\* Amounts a user types into an amount field.
CashAmounts == {0, 80}
OnlineAmounts == {0, 20}
TotalAmounts == {80, 100}
DepositAmounts == {0, 20, 80}
SaleCash == {0, 20, 100}
SaleOnline == {0, 80}
StockInputs == (0 - 1) .. MaxStock

NoLock == "none"

VARIABLES
    \* backend tables
    categories,     \* categories: id -> [price, stock]
    shop_balance,   \* balances.shop_balance
    bank_balance,   \* balances.bank_balance
    sales,          \* sales rows, oldest first
    expenses,       \* expenses rows, oldest first
    deposits,       \* deposits rows, oldest first
    profiles,       \* profiles: id -> [designation, is_approved]
    notifications,  \* notifications rows of type 'expense'
    lock,           \* the task holding the FOR UPDATE lock on the balances row
    \* client store (one per client)
    store,          \* [categories, sales, balances] of useStore
    \* tasks: one asynchronous handler in flight each
    pc,             \* position of the task's handler
    req,            \* the handler's arguments and captured values
    fetched,        \* the responses fetchAllData has received so far
    calls,          \* handler calls so far
    \* synchronization layer (one per client)
    localStorage,   \* cached_categories, cached_balances
    session,        \* supabase.auth has a session (a user is signed in)
    channel,        \* the 'store-changes' channels that are subscribed
    events          \* change events the channels have not delivered yet

vars == <<categories, shop_balance, bank_balance, sales, expenses, deposits,
          profiles, notifications, lock, store, pc, req, fetched, calls, localStorage, session, channel,
          events>>

feed == <<session, channel, events>>

server == <<categories, shop_balance, bank_balance, sales, expenses, deposits,
            profiles, notifications>>

\* ---------------------------------------------------------------- helpers
RECURSIVE OrderByPrice(_)
\* .order('price', { ascending: true })
OrderByPrice(rows) ==
    IF rows = {} THEN <<>>
    ELSE LET m == CHOOSE r \in rows : \A x \in rows : r.price <= x.price
         IN <<m>> \o OrderByPrice(rows \ {m})

Max(a, b) == IF a >= b THEN a ELSE b

NoReq == [op |-> "none"]
Pending == [status |-> "pending"]
NoFetch == [categories |-> Pending, sales |-> Pending, balances |-> Pending]

\* localStorage entries: JSON.stringify(value), an entry that does not
\* parse, or no entry; JSON.parse gives back the value of the first only.
Stringify(value) == [status |-> "json", value |-> value]
Unparseable == [status |-> "corrupt"]
NoItem == [status |-> "absent"]
Parses(item) == item.status = "json"
Parse(item) == item.value

\* Mutant: only the categories are cached.
CacheWriteCategories(cats, bals) ==
    [cached_categories |-> Stringify(cats), cached_balances |-> NoItem]

\* "Cache the data"
CacheWrite(cats, bals) ==
    [cached_categories |-> Stringify(cats), cached_balances |-> Stringify(bals)]

\* select * from sales order by timestamp desc
SalesResponse == [i \in DOMAIN sales |-> sales[Len(sales) + 1 - i]]

\* select id, price, stock from categories order by price
CategoriesResponse ==
    OrderByPrice({[id |-> k, price |-> categories[k].price, stock |-> categories[k].stock] :
                    k \in DOMAIN categories})

\* The owner has signed up with the admin phone number and has approved
\* the two store managers.
SignedUp ==
    [id \in Users |->
       [designation |-> IF id = "A" THEN "Owner" ELSE "Store Manager",
        is_approved |-> TRUE]]

\* ---------------------------------------------------------------- Init
\* The ledger of a shop that has just opened, or of one that has sold one
\* piece of each category for cash: the migration inserts the single
\* balances row (0, 0); the two categories have been added and stocked
\* (addCategory, updateStock), restocked after the sale, and every client
\* has fetched the ledger since (fetchAllData).
FirstSale ==
    [items |-> <<[id |-> "k1", price |-> 20, quantity |-> 1],
                 [id |-> "k2", price |-> 80, quantity |-> 1]>>,
     total |-> 100, cash |-> 100, online |-> 0]

Init ==
    /\ categories = [k \in CatIds |-> [price |-> InitialPrice(k), stock |-> MaxStock]]
    /\ \/ sales = <<>> /\ shop_balance = 0
       \/ sales = <<FirstSale>> /\ shop_balance = FirstSale.cash
    /\ bank_balance = 0
    /\ expenses = <<>>
    /\ deposits = <<>>
    /\ profiles = SignedUp
    /\ notifications = {}
    /\ lock = NoLock
    /\ store = [c \in Clients |->
                  [categories |-> CategoriesResponse, sales |-> SalesResponse,
                   balances |-> [shopBalance |-> shop_balance,
                                 bankBalance |-> bank_balance],
                   initialized |-> TRUE, userProfile |-> TRUE]]
    /\ localStorage = [c \in Clients |->
                         CacheWrite(store[c].categories, store[c].balances)]
    /\ session = [c \in Clients |-> TRUE]
    /\ channel = [c \in Clients |-> 0]
    /\ events = [c \in Clients |-> 0]
    /\ calls = 0
    /\ pc = [t \in Tasks |-> "idle"]
    /\ req = [t \in Tasks |-> NoReq]
    /\ fetched = [t \in Tasks |-> NoFetch]

\* No handler of the task is running: the next one can be called (an
\* error shown by the last one is replaced by the next call's outcome).
Ready(t) == pc[t] \in {"idle", "failed"}

\* One more handler call.
Call ==
    /\ calls < MaxCalls
    /\ calls' = calls + 1

\* ---------------------------------------------------------------- fetchAllData
\* The three parallel selects of fetchAllData; each one reads the state
\* committed when it is served, or returns an error.
Fetching(t) == pc[t] \in {"fetch", "sale_fetch", "init_fetch", "hydrate_fetch"}

\* The start of fetchAllData: without a user it logs and returns.
FetchStart(t, to, r) ==
    IF session[Owner(t)]
    THEN /\ pc' = [pc EXCEPT ![t] = to]
         /\ req' = [req EXCEPT ![t] = r]
    ELSE /\ pc' = [pc EXCEPT ![t] = "idle"]
         /\ req' = [req EXCEPT ![t] = [op |-> "fetchAllData", error |-> "none"]]

\* fetchAllData is called: component mount, pull to refresh.
FetchAllData(t) ==
    /\ Ready(t)
    /\ FetchStart(t, "fetch", NoReq)
    /\ fetched' = [fetched EXCEPT ![t] = NoFetch]
    /\ Call
    /\ UNCHANGED <<server, lock, store, localStorage, feed>>

\* A select that returns an error decides the outcome of the whole
\* Promise.all: fetchAllData throws whatever the other two return.
FailedFetch ==
    [categories |-> [status |-> "error"], sales |-> [status |-> "error"],
     balances |-> [status |-> "error"]]

SelectCategories(t) ==
    /\ Fetching(t)
    /\ fetched[t].categories.status = "pending"
    /\ \E ok \in BOOLEAN :
         fetched' = [fetched EXCEPT ![t] =
                       IF ok THEN [@ EXCEPT !.categories =
                                     [status |-> "ok", data |-> CategoriesResponse]]
                       ELSE FailedFetch]
    /\ UNCHANGED <<server, lock, store, pc, req, calls, localStorage, feed>>

SelectSales(t) ==
    /\ Fetching(t)
    /\ fetched[t].sales.status = "pending"
    /\ \E ok \in BOOLEAN :
         fetched' = [fetched EXCEPT ![t] =
                       IF ok THEN [@ EXCEPT !.sales =
                                     [status |-> "ok", data |-> SalesResponse]]
                       ELSE FailedFetch]
    /\ UNCHANGED <<server, lock, store, pc, req, calls, localStorage, feed>>

SelectBalances(t) ==
    /\ Fetching(t)
    /\ fetched[t].balances.status = "pending"
    /\ \E ok \in BOOLEAN :
         fetched' = [fetched EXCEPT ![t] =
                       IF ok THEN [@ EXCEPT !.balances =
                                     [status |-> "ok",
                                      data |-> [shopBalance |-> shop_balance,
                                                bankBalance |-> bank_balance]]]
                       ELSE FailedFetch]
    /\ UNCHANGED <<server, lock, store, pc, req, calls, localStorage, feed>>

FetchFailed(t) ==
    \E f \in {"categories", "sales", "balances"} : fetched[t][f].status = "error"

FetchComplete(t) ==
    \A f \in {"categories", "sales", "balances"} : fetched[t][f].status # "pending"

\* Promise.all has resolved: throw on the first error, else set the state.
\* Inside completeSale the throw reaches handleCompleteSale's catch, which
\* puts back the categories it captured.
FetchedState(t) ==
    [store[Owner(t)] EXCEPT !.categories = fetched[t].categories.data,
                            !.sales = fetched[t].sales.data,
                            !.balances = fetched[t].balances.data,
                            !.initialized = TRUE]

\* "Cache the data", "Update state"
FetchSucceed(t) ==
    /\ localStorage' = [localStorage EXCEPT ![Owner(t)] =
                           CacheWrite(fetched[t].categories.data,
                                      fetched[t].balances.data)]
    /\ store' = [store EXCEPT ![Owner(t)] = FetchedState(t)]

FetchResolve(t) ==
    /\ pc[t] \in {"fetch", "sale_fetch"}
    /\ FetchComplete(t)
    /\ IF FetchFailed(t)
       THEN /\ IF pc[t] = "sale_fetch"
               THEN /\ store' = [store EXCEPT ![Owner(t)].categories = req[t].captured]
                    /\ pc' = [pc EXCEPT ![t] = "failed"]
                    /\ req' = [req EXCEPT ![t] =
                                 [op |-> "handleCompleteSale", error |-> "FetchError"]]
               ELSE /\ UNCHANGED store
                    /\ pc' = [pc EXCEPT ![t] = "failed"]
                    /\ req' = [req EXCEPT ![t] =
                                 [op |-> "fetchAllData", error |-> "FetchError"]]
            /\ UNCHANGED localStorage
       ELSE /\ FetchSucceed(t)
            /\ pc' = [pc EXCEPT ![t] = "idle"]
            /\ req' = [req EXCEPT ![t] = NoReq]
    /\ fetched' = [fetched EXCEPT ![t] = NoFetch]
    /\ UNCHANGED <<server, lock, calls, feed>>

\* ---------------------------------------------------------------- balances
Balances == [shop_balance |-> shop_balance, bank_balance |-> bank_balance]

SetBalances(b) ==
    /\ shop_balance' = b.shop_balance
    /\ bank_balance' = b.bank_balance

\* A handler starts: the task leaves "idle" with its arguments in req.
Begin(t, to, r) ==
    /\ Ready(t)
    /\ pc' = [pc EXCEPT ![t] = to]
    /\ req' = [req EXCEPT ![t] = r]
    /\ Call

\* A handler ends with an error: the error is shown (setError, alert)
\* and nothing else of the task's state is kept.
Failed(t, op, why) ==
    /\ pc' = [pc EXCEPT ![t] = "failed"]
    /\ req' = [req EXCEPT ![t] = [op |-> op, error |-> why]]

\* A handler returns before it sends anything: only the error is shown.
Reject(t, op, why) ==
    /\ Ready(t)
    /\ Failed(t, op, why)
    /\ Call
    /\ UNCHANGED <<server, lock, store, fetched, localStorage, feed>>

\* postgres_changes: n changes to sales, categories or balances have
\* committed; every subscribed channel will deliver an event for each.
Notify(n) ==
    events' = [c \in Clients |-> events[c] + n * channel[c]]

\* A handler has committed and refreshes the store with fetchAllData.
ThenFetch(t) ==
    /\ pc' = [pc EXCEPT ![t] = "fetch"]
    /\ fetched' = [fetched EXCEPT ![t] = NoFetch]
    /\ req' = [req EXCEPT ![t] = NoReq]

\* ---------------------------------------------------------------- notify_expense
\* Mutant: the creator is notified too.
NotifyExpenseEveryone(new, expense_id) ==
    {[user_id |-> id, expense_id |-> expense_id] : id \in DOMAIN profiles}

\* trigger on_expense_notify: a notification for every user but the
\* creator who is approved, when the creator is a Store Manager, and who
\* is an Owner otherwise.
NotifyExpense(new, expense_id) ==
    LET creator_designation == profiles[new.created_by].designation
    IN {[user_id |-> id, expense_id |-> expense_id] :
          id \in IF creator_designation = "Store Manager"
                 THEN {u \in DOMAIN profiles :
                         u # new.created_by /\ profiles[u].is_approved}
                 ELSE {u \in DOMAIN profiles :
                         u # new.created_by /\ profiles[u].designation = "Owner"}}

\* insert into expenses, with its after-insert trigger.
InsertExpense(new) ==
    /\ expenses' = Append(expenses, new)
    /\ notifications' = notifications \cup NotifyExpense(new, Len(expenses) + 1)

\* ---------------------------------------------------------------- handle_expense
\* Mutant: the select without "for update" takes no lock.
SelectWithoutLock(t) == UNCHANGED lock

\* select ... from balances limit 1 for update: waits for the row lock and
\* holds it until the transaction ends.
SelectForUpdate(t) ==
    /\ lock = NoLock
    /\ lock' = t

\* The transaction ends (commit or rollback): its row lock is released.
ReleaseLock(t) == lock' = IF lock = t THEN NoLock ELSE lock

\* "Validate amounts"
HandleExpenseValidate(v_shop_balance, v_bank_balance, cash_amt, online_amt) ==
    IF cash_amt > v_shop_balance THEN "InsufficientShopBalance"
    ELSE IF online_amt > v_bank_balance THEN "InsufficientBankBalance"
    ELSE "ok"

\* "insert into expenses (...)"
HandleExpenseRow(user_id, cash_amt, online_amt) ==
    [created_by |-> user_id, amount |-> cash_amt + online_amt,
     cash_amount |-> cash_amt, online_amount |-> online_amt]

\* "update balances set ..."
HandleExpenseUpdate(v_shop_balance, v_bank_balance, cash_amt, online_amt) ==
    [shop_balance |-> v_shop_balance - cash_amt,
     bank_balance |-> v_bank_balance - online_amt]

\* store.addExpense calls the procedure; its first statement locks the
\* balances row and reads it.
HandleExpenseBegin(t, cash_amt, online_amt) ==
    /\ SelectForUpdate(t)
    /\ Begin(t, "handle_expense",
             [op |-> "handle_expense", user_id |-> Owner(t),
              cash_amt |-> cash_amt, online_amt |-> online_amt,
              v_shop_balance |-> shop_balance, v_bank_balance |-> bank_balance])
    /\ UNCHANGED <<server, store, fetched, localStorage, feed>>

\* The rest of the procedure, up to the end of its transaction.
HandleExpenseEnd(t) ==
    /\ pc[t] = "handle_expense"
    /\ LET r == req[t]
           v == HandleExpenseValidate(r.v_shop_balance, r.v_bank_balance,
                                      r.cash_amt, r.online_amt)
       IN IF v = "ok"
          THEN /\ InsertExpense(HandleExpenseRow(r.user_id, r.cash_amt, r.online_amt))
               /\ SetBalances(HandleExpenseUpdate(r.v_shop_balance, r.v_bank_balance,
                                                  r.cash_amt, r.online_amt))
               /\ ThenFetch(t)
               /\ Notify(1)
          ELSE /\ UNCHANGED <<expenses, notifications, shop_balance, bank_balance,
                              fetched, events>>
               /\ Failed(t, "handle_expense", v)
    /\ ReleaseLock(t)
    /\ UNCHANGED <<categories, sales, deposits, profiles, store, calls, localStorage,
                   session, channel>>

\* ---------------------------------------------------------------- Expenses.handleSubmit
\* "Cash amount + Online amount must equal total amount"
ExpenseAmountsMatch(parsedAmount, parsedCashAmount, parsedOnlineAmount) ==
    parsedCashAmount + parsedOnlineAmount = parsedAmount

\* isOwner && <Input value={onlineAmount} .../>: only an Owner gets the
\* "From Bank A/c" field; for anybody else onlineAmount stays "".
OnlineAmountField(c) ==
    IF profiles[c].designation = "Owner" THEN OnlineAmounts ELSE {0}

\* supabase.from("expenses").insert({...}): the row goes straight into the
\* table; the only trigger on expenses is the notification one.
ExpensesHandleSubmit(t, parsedAmount, parsedCashAmount, parsedOnlineAmount, ok) ==
    IF ~ExpenseAmountsMatch(parsedAmount, parsedCashAmount, parsedOnlineAmount)
    THEN Reject(t, "Expenses.handleSubmit", "AmountMismatch")
    ELSE IF ~ok
    THEN Reject(t, "Expenses.handleSubmit", "NetworkError")
    ELSE /\ Ready(t)
         /\ InsertExpense([created_by |-> Owner(t), amount |-> parsedAmount,
                           cash_amount |-> parsedCashAmount,
                           online_amount |-> parsedOnlineAmount])
         /\ ThenFetch(t)
         /\ Call
         /\ UNCHANGED <<categories, shop_balance, bank_balance, sales, deposits,
                        profiles, lock, store, localStorage, feed>>

\* ---------------------------------------------------------------- deposits
\* Mutant: the deposit leaves the till but never reaches the bank.
UpdateBalancesForDepositShopOnly(b, amount) ==
    [shop_balance |-> b.shop_balance - amount, bank_balance |-> b.bank_balance]

\* trigger update_balances_after_deposit
UpdateBalancesForDeposit(b, amount) ==
    [shop_balance |-> b.shop_balance - amount,
     bank_balance |-> b.bank_balance + amount]

\* "Validate against available balance": the store's mirror is compared.
DepositAllowed(c, depositAmount) ==
    depositAmount <= store[c].balances.shopBalance

\* supabase.from('deposits').insert([...]); the trigger's update of the
\* balances row waits while handle_expense holds the row lock.
DepositsHandleSubmit(t, depositAmount, ok) ==
    IF depositAmount <= 0
    THEN Reject(t, "Deposits.handleSubmit", "InvalidAmount")
    ELSE IF ~DepositAllowed(Owner(t), depositAmount)
    THEN Reject(t, "Deposits.handleSubmit", "ExceedsAvailableBalance")
    ELSE IF ~ok
    THEN Reject(t, "Deposits.handleSubmit", "NetworkError")
    ELSE /\ Ready(t)
         /\ lock = NoLock
         /\ deposits' = Append(deposits, [amount |-> depositAmount])
         /\ SetBalances(UpdateBalancesForDeposit(Balances, depositAmount))
         /\ ThenFetch(t)
         /\ Notify(1)
         /\ Call
         /\ UNCHANGED <<categories, sales, expenses, profiles, notifications, lock,
                        store, localStorage, session, channel>>

\* ---------------------------------------------------------------- sales
RECURSIVE SumSeq(_)
SumSeq(xs) == IF xs = <<>> THEN 0 ELSE Head(xs) + SumSeq(Tail(xs))

MapSeq(xs, F(_)) == [i \in DOMAIN xs |-> F(xs[i])]

\* categories.find((c) => c.price === price)
FindByPrice(cats, price) ==
    cats[CHOOSE i \in DOMAIN cats :
           /\ cats[i].price = price
           /\ \A j \in DOMAIN cats : j < i => cats[j].price # price]

\* localQuantities, keyed by price; updateQuantity keeps each quantity
\* between 0 and the stock the store shows.
Carts(cats) ==
    {q \in [{cats[i].price : i \in DOMAIN cats} -> 0 .. MaxStock] :
        \A p \in DOMAIN q : q[p] <= FindByPrice(cats, p).stock}

\* the effect that keeps `total` = sum of localQuantities[price] * price
CartTotal(cats, q) == SumSeq(MapSeq(cats, LAMBDA c : q[c.price] * c.price))

\* Mutant: only an underpayment is refused.
PaymentCoversTotal(cash, online, total) == cash + online >= total

\* "Validate payment amount matches total"
PaymentMatchesTotal(cash, online, total) == cash + online = total

SaleItems(cats, q) ==
    MapSeq(SelectSeq(cats, LAMBDA c : q[c.price] > 0),
           LAMBDA c : [id |-> c.id, price |-> c.price, quantity |-> q[c.price]])

\* "Optimistically update local state"
OptimisticSale(cats, q) ==
    MapSeq(cats, LAMBDA c : [c EXCEPT !.stock = c.stock - q[c.price]])

\* SalesMode.handleCompleteSale up to the rpc of completeSale.
HandleCompleteSale(t, q, cash, online) ==
    LET cats == store[Owner(t)].categories
        total == CartTotal(cats, q)
    IN /\ Ready(t)
       /\ total > 0
       /\ IF ~PaymentMatchesTotal(cash, online, total)
          THEN /\ Failed(t, "handleCompleteSale", "PaymentMismatch")
               /\ Call
               /\ UNCHANGED store
          ELSE /\ store' = [store EXCEPT ![Owner(t)].categories = OptimisticSale(cats, q)]
               /\ Begin(t, "handle_sale",
                        [op |-> "handle_sale", items |-> SaleItems(cats, q),
                         total |-> total, cash |-> cash, online |-> online,
                         captured |-> cats, error |-> "none"])
       /\ UNCHANGED <<server, lock, fetched, localStorage, feed>>

\* Mutant: the whole payment is booked as cash.
UpdateBalancesForSaleAllCash(b, cash_amount, online_amount) ==
    [shop_balance |-> b.shop_balance + cash_amount + online_amount,
     bank_balance |-> b.bank_balance]

\* trigger update_balances_after_sale
UpdateBalancesForSale(b, cash_amount, online_amount) ==
    [shop_balance |-> b.shop_balance + cash_amount,
     bank_balance |-> b.bank_balance + online_amount]

\* Mutant: only the first item's stock is checked.
HandleSaleValidateFirstItem(items, cash, online) ==
    IF items # <<>> /\ items[1].quantity > categories[items[1].id].stock
    THEN "InsufficientStock"
    ELSE "ok"

\* RecordSale's preconditions, against the committed categories.
HandleSaleValidate(items, cash, online) ==
    IF \E i \in DOMAIN items : items[i].id \notin DOMAIN categories
    THEN "CategoryNotFound"
    ELSE IF \E i \in DOMAIN items : items[i].quantity > categories[items[i].id].stock
    THEN "InsufficientStock"
    ELSE IF cash + online #
            SumSeq(MapSeq(items, LAMBDA it : categories[it.id].price * it.quantity))
    THEN "PaymentMismatch"
    ELSE "ok"

\* RecordSale's stock decrements.
HandleSaleStock(items) ==
    [k \in DOMAIN categories |->
       [categories[k] EXCEPT !.stock =
          @ - SumSeq(MapSeq(SelectSeq(items, LAMBDA it : it.id = k),
                            LAMBDA it : it.quantity))]]

\* The rpc handle_sale is served (or the call fails on the way).
HandleSale(t, ok) ==
    /\ pc[t] = "handle_sale"
    /\ LET r == req[t]
           v == IF ok THEN HandleSaleValidate(r.items, r.cash, r.online)
                ELSE "NetworkError"
       IN IF v = "ok"
          THEN /\ lock = NoLock
               /\ sales' = Append(sales, [items |-> r.items, total |-> r.total,
                                          cash |-> r.cash, online |-> r.online])
               /\ SetBalances(UpdateBalancesForSale(Balances, r.cash, r.online))
               /\ categories' = HandleSaleStock(r.items)
               /\ pc' = [pc EXCEPT ![t] = "sale_fetch"]
               /\ fetched' = [fetched EXCEPT ![t] = NoFetch]
               /\ Notify(Len(r.items) + 2)
               /\ UNCHANGED req
          ELSE /\ pc' = [pc EXCEPT ![t] = "sale_error"]
               /\ req' = [req EXCEPT ![t].error = v]
               /\ UNCHANGED <<categories, shop_balance, bank_balance, sales, fetched,
                              events>>
    /\ UNCHANGED <<expenses, deposits, profiles, notifications, lock, store, calls,
                   localStorage, session, channel>>

\* handleCompleteSale's catch: "Revert optimistic update on error".
SaleCatch(t) ==
    /\ pc[t] = "sale_error"
    /\ store' = [store EXCEPT ![Owner(t)].categories = req[t].captured]
    /\ Failed(t, "handleCompleteSale", req[t].error)
    /\ UNCHANGED <<server, lock, fetched, calls, localStorage, feed>>

\* ---------------------------------------------------------------- updateStock
\* Mutant: the stock is written as given.
UnclampedStock(stock) == stock

\* Math.max(0, stock)
ClampStock(stock) == Max(0, stock)

\* Mutant: the optimistic list is cached as well.
UpdateStockCached(t, index, stock) ==
    LET cats == store[Owner(t)].categories
        updatedCategories == [cats EXCEPT ![index].stock = ClampStock(stock)]
    IN /\ Ready(t)
       /\ index \in DOMAIN cats
       /\ store' = [store EXCEPT ![Owner(t)].categories = updatedCategories]
       /\ localStorage' = [localStorage EXCEPT ![Owner(t)].cached_categories =
                              Stringify(updatedCategories)]
       /\ Begin(t, "update_stock",
                [op |-> "updateStock", id |-> cats[index].id,
                 stock |-> ClampStock(stock), captured |-> cats])
       /\ UNCHANGED <<server, lock, fetched, feed>>

\* store.updateStock up to the update request.
UpdateStock(t, index, stock) ==
    LET cats == store[Owner(t)].categories
    IN /\ Ready(t)
       /\ index \in DOMAIN cats
       /\ store' = [store EXCEPT ![Owner(t)].categories =
                      [cats EXCEPT ![index].stock = ClampStock(stock)]]
       /\ Begin(t, "update_stock",
                [op |-> "updateStock", id |-> cats[index].id,
                 stock |-> ClampStock(stock), captured |-> cats])
       /\ UNCHANGED <<server, lock, fetched, localStorage, feed>>

\* .update({ stock }).eq('id', category.id) is served, or fails.
UpdateStockRequest(t, ok) ==
    /\ pc[t] = "update_stock"
    /\ IF ok
       THEN /\ categories' = [k \in DOMAIN categories |->
                                IF k = req[t].id
                                THEN [categories[k] EXCEPT !.stock = req[t].stock]
                                ELSE categories[k]]
            /\ pc' = [pc EXCEPT ![t] = "idle"]
            /\ req' = [req EXCEPT ![t] = NoReq]
            /\ Notify(1)
       ELSE /\ pc' = [pc EXCEPT ![t] = "update_stock_error"]
            /\ UNCHANGED <<categories, req, events>>
    /\ UNCHANGED <<shop_balance, bank_balance, sales, expenses, deposits, profiles,
                   notifications, lock, store, fetched, calls, localStorage, session,
                   channel>>

\* Mutant: the catch rethrows without reverting.
UpdateStockCatchKeeps(t) ==
    /\ pc[t] = "update_stock_error"
    /\ Failed(t, "updateStock", "NetworkError")
    /\ UNCHANGED <<server, lock, store, fetched, calls, localStorage, feed>>

\* updateStock's catch: "Revert optimistic update on error".
UpdateStockCatch(t) ==
    /\ pc[t] = "update_stock_error"
    /\ store' = [store EXCEPT ![Owner(t)].categories = req[t].captured]
    /\ Failed(t, "updateStock", "NetworkError")
    /\ UNCHANGED <<server, lock, fetched, calls, localStorage, feed>>

\* ---------------------------------------------------------------- Inventory.handleUpdateStock
Min(a, b) == IF a <= b THEN a ELSE b

\* Math.max(0, Math.min(newStock, 999999))
ValidStock(newStock) == Max(0, Min(newStock, 999999))

\* A click on + or -, or a new value typed: the category at the index is
\* captured and setTimeout(..., 500) is armed with the index and the
\* value; the function that would clear the timeout is returned to nobody.
\* `armed` orders the timeouts of a client.
HandleUpdateStock(t, index, newStock) ==
    LET cats == store[Owner(t)].categories
    IN /\ index \in DOMAIN cats
       /\ Begin(t, "debounce",
                [op |-> "handleUpdateStock", index |-> index,
                 stock |-> ValidStock(newStock), category |-> cats[index],
                 armed |-> calls])
       /\ UNCHANGED <<server, lock, store, fetched, localStorage, feed>>

\* The timeout fires, those of equal delay in the order they were armed:
\* store.updateStock(index, validStock) up to its update request; it
\* returns at once if the store has no category at the index any more.
Timeout(t) ==
    LET cats == store[Owner(t)].categories
        r == req[t]
    IN /\ pc[t] = "debounce"
       /\ \A u \in DOMAIN pc :
             (u # t /\ pc[u] = "debounce" /\ Owner(u) = Owner(t))
             => req[u].armed > r.armed
       /\ IF r.index \in DOMAIN cats
          THEN /\ store' = [store EXCEPT ![Owner(t)].categories =
                             [cats EXCEPT ![r.index].stock = ClampStock(r.stock)]]
               /\ pc' = [pc EXCEPT ![t] = "update_stock"]
               /\ req' = [req EXCEPT ![t] =
                            [op |-> "updateStock", id |-> cats[r.index].id,
                             stock |-> ClampStock(r.stock), captured |-> cats]]
          ELSE /\ pc' = [pc EXCEPT ![t] = "idle"]
               /\ req' = [req EXCEPT ![t] = NoReq]
               /\ UNCHANGED store
       /\ UNCHANGED <<server, lock, fetched, calls, localStorage, feed>>

\* ---------------------------------------------------------------- updatePrice
\* store.updatePrice up to the update request.
UpdatePrice(t, index, newPrice) ==
    LET cats == store[Owner(t)].categories
    IN /\ Ready(t)
       /\ index \in DOMAIN cats
       /\ store' = [store EXCEPT ![Owner(t)].categories =
                      [cats EXCEPT ![index].price = newPrice]]
       /\ Begin(t, "update_price",
                [op |-> "updatePrice", id |-> cats[index].id,
                 price |-> newPrice, captured |-> cats])
       /\ UNCHANGED <<server, lock, fetched, localStorage, feed>>

\* .update({ price: newPrice }).eq('id', category.id) is served, or fails.
UpdatePriceRequest(t, ok) ==
    /\ pc[t] = "update_price"
    /\ IF ok
       THEN /\ categories' = [k \in DOMAIN categories |->
                                IF k = req[t].id
                                THEN [categories[k] EXCEPT !.price = req[t].price]
                                ELSE categories[k]]
            /\ pc' = [pc EXCEPT ![t] = "idle"]
            /\ req' = [req EXCEPT ![t] = NoReq]
            /\ Notify(1)
       ELSE /\ pc' = [pc EXCEPT ![t] = "update_price_error"]
            /\ UNCHANGED <<categories, req, events>>
    /\ UNCHANGED <<shop_balance, bank_balance, sales, expenses, deposits, profiles,
                   notifications, lock, store, fetched, calls, localStorage, session,
                   channel>>

\* updatePrice's catch: "Revert optimistic update on error".
UpdatePriceCatch(t) ==
    /\ pc[t] = "update_price_error"
    /\ store' = [store EXCEPT ![Owner(t)].categories = req[t].captured]
    /\ Failed(t, "updatePrice", "NetworkError")
    /\ UNCHANGED <<server, lock, fetched, calls, localStorage, feed>>

\* ---------------------------------------------------------------- deleteCategory
\* categories.filter((_, i) => i !== index)
RemoveAt(cats, index) ==
    [i \in 1 .. Len(cats) - 1 |-> IF i < index THEN cats[i] ELSE cats[i + 1]]

\* store.deleteCategory up to the delete request.
DeleteCategory(t, index) ==
    LET cats == store[Owner(t)].categories
    IN /\ Ready(t)
       /\ index \in DOMAIN cats
       /\ store' = [store EXCEPT ![Owner(t)].categories = RemoveAt(cats, index)]
       /\ Begin(t, "delete_category",
                [op |-> "deleteCategory", id |-> cats[index].id, captured |-> cats])
       /\ UNCHANGED <<server, lock, fetched, localStorage, feed>>

\* .delete().eq('id', category.id) is served, or fails.
DeleteCategoryRequest(t, ok) ==
    /\ pc[t] = "delete_category"
    /\ IF ok
       THEN /\ categories' = [k \in DOMAIN categories \ {req[t].id} |-> categories[k]]
            /\ pc' = [pc EXCEPT ![t] = "idle"]
            /\ req' = [req EXCEPT ![t] = NoReq]
            /\ Notify(1)
       ELSE /\ pc' = [pc EXCEPT ![t] = "delete_category_error"]
            /\ UNCHANGED <<categories, req, events>>
    /\ UNCHANGED <<shop_balance, bank_balance, sales, expenses, deposits, profiles,
                   notifications, lock, store, fetched, calls, localStorage, session,
                   channel>>

\* deleteCategory's catch: "Revert optimistic update on error".
DeleteCategoryCatch(t) ==
    /\ pc[t] = "delete_category_error"
    /\ store' = [store EXCEPT ![Owner(t)].categories = req[t].captured]
    /\ Failed(t, "deleteCategory", "NetworkError")
    /\ UNCHANGED <<server, lock, fetched, calls, localStorage, feed>>

\* ---------------------------------------------------------------- addCategory
\* crypto.randomUUID(): an id no earlier call has drawn; the row the
\* server inserts gets an id of the server's (uuid_generate_v4).
LocalIds == <<"u1", "u2", "u3", "u4">>
RandomUUID == LocalIds[calls + 1]
ServerIds == [u1 |-> "s1", u2 |-> "s2", u3 |-> "s3", u4 |-> "s4"]

\* [...categories, newCategory].sort((a, b) => a.price - b.price): the
\* sort is stable, the new category comes after those of the same price.
InsertSorted(cats, newCategory) ==
    LET before == SelectSeq(cats, LAMBDA c : c.price <= newCategory.price)
        after == SelectSeq(cats, LAMBDA c : c.price > newCategory.price)
    IN before \o <<newCategory>> \o after

\* Inventory.handleAddCategory's check, then store.addCategory up to the
\* insert request.
AddCategory(t, price) ==
    LET cats == store[Owner(t)].categories
        newCategory == [id |-> RandomUUID, price |-> price, stock |-> 0]
    IN /\ Ready(t)
       /\ session[Owner(t)]
       /\ price > 0
       /\ ~\E i \in DOMAIN cats : cats[i].price = price
       /\ store' = [store EXCEPT ![Owner(t)].categories = InsertSorted(cats, newCategory)]
       /\ Begin(t, "add_category",
                [op |-> "addCategory", id |-> newCategory.id, price |-> price])
       /\ UNCHANGED <<server, lock, fetched, localStorage, feed>>

\* .insert([{ price, stock: 0, ... }]).select().single() is served, comes
\* back with an error, or the request throws.
AddCategoryInsert(t, outcome) ==
    /\ pc[t] = "add_category"
    /\ CASE outcome = "ok" ->
              /\ categories' =
                   [k \in DOMAIN categories \cup {ServerIds[req[t].id]} |->
                      IF k \in DOMAIN categories THEN categories[k]
                      ELSE [price |-> req[t].price, stock |-> 0]]
              /\ pc' = [pc EXCEPT ![t] = "fetch"]
              /\ req' = [req EXCEPT ![t] = NoReq]
              /\ Notify(1)
         [] outcome = "error" ->
              /\ pc' = [pc EXCEPT ![t] = "add_category_error"]
              /\ UNCHANGED <<categories, req, events>>
         [] outcome = "throw" ->
              /\ pc' = [pc EXCEPT ![t] = "add_category_throw"]
              /\ UNCHANGED <<categories, req, events>>
    /\ fetched' = [fetched EXCEPT ![t] = NoFetch]
    /\ UNCHANGED <<shop_balance, bank_balance, sales, expenses, deposits, profiles,
                   notifications, lock, store, calls, localStorage, session, channel>>

\* if (error): "Revert optimistic update on error", throw error.
AddCategoryError(t) ==
    /\ pc[t] = "add_category_error"
    /\ store' = [store EXCEPT ![Owner(t)].categories =
                   SelectSeq(@, LAMBDA c : c.id # req[t].id)]
    /\ pc' = [pc EXCEPT ![t] = "failed"]
    /\ req' = [req EXCEPT ![t] =
                 [op |-> "addCategory", error |-> "InsertError", id |-> req[t].id]]
    /\ UNCHANGED <<server, lock, fetched, calls, localStorage, feed>>

\* catch (error): console.error, throw error.
AddCategoryCatch(t) ==
    /\ pc[t] = "add_category_throw"
    /\ pc' = [pc EXCEPT ![t] = "failed"]
    /\ req' = [req EXCEPT ![t] =
                 [op |-> "addCategory", error |-> "NetworkError", id |-> req[t].id]]
    /\ UNCHANGED <<server, lock, store, fetched, calls, localStorage, feed>>

\* ---------------------------------------------------------------- initializeStore
\* The state useStore is created with.
InitialState ==
    [categories |-> <<>>, sales |-> <<>>,
     balances |-> [shopBalance |-> 0, bankBalance |-> 0],
     initialized |-> FALSE, userProfile |-> FALSE]

\* .channel('store-changes').on(...).subscribe(): one more channel, kept
\* in a local variable of the call.
Subscribe(c) == channel' = [channel EXCEPT ![c] = @ + 1]

\* App's effect: if (!initialized) initializeStore(). Without a session
\* the store is marked initialized; with one, fetchAllData is awaited.
InitializeStore(t) ==
    LET c == Owner(t)
    IN /\ Ready(t)
       /\ ~store[c].initialized
       /\ \A u \in DOMAIN pc : Owner(u) = c => pc[u] # "init_fetch"
       /\ Call
       /\ IF session[c]
          THEN /\ pc' = [pc EXCEPT ![t] = "init_fetch"]
               /\ store' = [store EXCEPT ![c].initialized = FALSE]
          ELSE /\ pc' = [pc EXCEPT ![t] = "idle"]
               /\ store' = [store EXCEPT ![c].initialized = TRUE]
       /\ req' = [req EXCEPT ![t] = NoReq]
       /\ fetched' = [fetched EXCEPT ![t] = NoFetch]
       /\ UNCHANGED <<server, lock, localStorage, feed>>

\* initializeStore after its await: subscribe to the three tables, or
\* the catch: set({ initialized: true }), throw error.
InitializeStoreResolve(t) ==
    /\ pc[t] = "init_fetch"
    /\ FetchComplete(t)
    /\ IF FetchFailed(t)
       THEN /\ store' = [store EXCEPT ![Owner(t)].initialized = TRUE]
            /\ Failed(t, "initializeStore", "FetchError")
            /\ UNCHANGED <<localStorage, channel>>
       ELSE /\ FetchSucceed(t)
            /\ Subscribe(Owner(t))
            /\ pc' = [pc EXCEPT ![t] = "idle"]
            /\ req' = [req EXCEPT ![t] = NoReq]
    /\ fetched' = [fetched EXCEPT ![t] = NoFetch]
    /\ UNCHANGED <<server, lock, calls, session, events>>

\* ---------------------------------------------------------------- setUserProfile
\* The cached entries that parse replace the categories and the balances.
Hydrate(state, items) ==
    [state EXCEPT !.userProfile = TRUE,
                  !.categories = IF Parses(items.cached_categories)
                                 THEN Parse(items.cached_categories) ELSE @,
                  !.balances = IF Parses(items.cached_balances)
                               THEN Parse(items.cached_balances) ELSE @]

\* Mutant: JSON.parse is not guarded, an entry that does not parse ends
\* setUserProfile with the SyntaxError.
SetUserProfileUnguarded(t) ==
    LET c == Owner(t)
        items == localStorage[c]
    IN /\ Ready(t)
       /\ session[c]
       /\ ~store[c].userProfile
       /\ Call
       /\ store' = [store EXCEPT ![c] = Hydrate(@, items)]
       /\ IF Unparseable \in {items.cached_categories, items.cached_balances}
          THEN Failed(t, "setUserProfile", "SyntaxError")
          ELSE /\ pc' = [pc EXCEPT ![t] = "hydrate_fetch"]
               /\ req' = [req EXCEPT ![t] = NoReq]
       /\ fetched' = [fetched EXCEPT ![t] = NoFetch]
       /\ UNCHANGED <<server, lock, localStorage, feed>>

\* ProtectedRoute.checkAuth: a session and no userProfile; setUserProfile
\* paints the cache and starts fetchAllData and fetchUserProfile.
SetUserProfile(t) ==
    LET c == Owner(t)
    IN /\ Ready(t)
       /\ session[c]
       /\ ~store[c].userProfile
       /\ Call
       /\ store' = [store EXCEPT ![c] = Hydrate(@, localStorage[c])]
       /\ pc' = [pc EXCEPT ![t] = "hydrate_fetch"]
       /\ req' = [req EXCEPT ![t] = NoReq]
       /\ fetched' = [fetched EXCEPT ![t] = NoFetch]
       /\ UNCHANGED <<server, lock, localStorage, feed>>

\* Promise.all([...]).then: fetchAllData has set the state or its error
\* was caught and dropped; fetchUserProfile has set the profile, or has
\* signed out for want of one; the channel is subscribed in any case.
SetUserProfileResolve(t, profile) ==
    LET c == Owner(t)
    IN /\ pc[t] = "hydrate_fetch"
       /\ FetchComplete(t)
       /\ IF FetchFailed(t)
          THEN /\ store' = [store EXCEPT ![c].initialized = TRUE,
                                         ![c].userProfile = profile]
               /\ UNCHANGED localStorage
          ELSE /\ localStorage' = [localStorage EXCEPT ![c] =
                                     CacheWrite(fetched[t].categories.data,
                                                fetched[t].balances.data)]
               /\ store' = [store EXCEPT ![c] =
                              [FetchedState(t) EXCEPT !.userProfile = profile]]
       /\ session' = [session EXCEPT ![c] = profile]
       /\ Subscribe(c)
       /\ pc' = [pc EXCEPT ![t] = "idle"]
       /\ req' = [req EXCEPT ![t] = NoReq]
       /\ fetched' = [fetched EXCEPT ![t] = NoFetch]
       /\ UNCHANGED <<server, lock, calls, events>>

\* ---------------------------------------------------------------- change feed
\* The channel delivers one event: () => get().fetchAllData()
ChangeEvent(t) ==
    LET c == Owner(t)
    IN /\ Ready(t)
       /\ channel[c] > 0
       /\ events[c] > 0
       /\ events' = [events EXCEPT ![c] = @ - 1]
       /\ FetchStart(t, "fetch", NoReq)
       /\ fetched' = [fetched EXCEPT ![t] = NoFetch]
       /\ UNCHANGED <<server, lock, store, calls, localStorage, session, channel>>

\* ProfileMenu.handleSignOut: supabase.auth.signOut(), navigate("/auth").
HandleSignOut(c) ==
    /\ session[c]
    /\ session' = [session EXCEPT ![c] = FALSE]
    /\ UNCHANGED <<server, lock, store, pc, req, fetched, calls, localStorage,
                   channel, events>>

Next ==
    \E t \in Tasks :
        \/ FetchAllData(t)
        \/ SelectCategories(t)
        \/ SelectSales(t)
        \/ SelectBalances(t)
        \/ FetchResolve(t)
        \/ \E cash_amt \in CashAmounts, online_amt \in OnlineAmounts :
               HandleExpenseBegin(t, cash_amt, online_amt)
        \/ HandleExpenseEnd(t)
        \/ \E a \in TotalAmounts, c \in CashAmounts, o \in OnlineAmountField(Owner(t)),
              ok \in BOOLEAN : ExpensesHandleSubmit(t, a, c, o, ok)
        \/ \E a \in DepositAmounts, ok \in BOOLEAN : DepositsHandleSubmit(t, a, ok)
        \/ \E q \in Carts(store[Owner(t)].categories), cash \in SaleCash,
              online \in SaleOnline : HandleCompleteSale(t, q, cash, online)
        \/ \E ok \in BOOLEAN : HandleSale(t, ok)
        \/ SaleCatch(t)
        \/ \E index \in 1 .. Cardinality(CatIds), stock \in StockInputs :
               UpdateStock(t, index, stock)
        \/ \E ok \in BOOLEAN : UpdateStockRequest(t, ok)
        \/ UpdateStockCatch(t)

Spec == Init /\ [][Next]_vars

\* ---------------------------------------------------------------- inventory
\* The Inventory page of one client: the store action behind each button,
\* two of them in flight at a time at most.
InventoryPrices == {30, 50}
InventoryStocks == {6, 7}

\* One category with five pieces in stock, fetched by the client.
InventoryInit ==
    /\ categories = [k \in {"k1"} |-> [price |-> 20, stock |-> 5]]
    /\ shop_balance = 0
    /\ bank_balance = 0
    /\ sales = <<>>
    /\ expenses = <<>>
    /\ deposits = <<>>
    /\ profiles = SignedUp
    /\ notifications = {}
    /\ lock = NoLock
    /\ store = [c \in Clients |->
                  [categories |-> CategoriesResponse, sales |-> SalesResponse,
                   balances |-> [shopBalance |-> shop_balance,
                                 bankBalance |-> bank_balance],
                   initialized |-> TRUE, userProfile |-> TRUE]]
    /\ localStorage = [c \in Clients |->
                         CacheWrite(store[c].categories, store[c].balances)]
    /\ session = [c \in Clients |-> TRUE]
    /\ channel = [c \in Clients |-> 0]
    /\ events = [c \in Clients |-> 0]
    /\ calls = 0
    /\ pc = [t \in OverlappingTasks |-> "idle"]
    /\ req = [t \in OverlappingTasks |-> NoReq]
    /\ fetched = [t \in OverlappingTasks |-> NoFetch]

InventoryNext ==
    \E t \in OverlappingTasks :
        \/ \E index \in 1 .. Len(store[Owner(t)].categories), stock \in InventoryStocks :
               UpdateStock(t, index, stock)
        \/ \E ok \in BOOLEAN : UpdateStockRequest(t, ok)
        \/ UpdateStockCatch(t)
        \/ \E index \in 1 .. Len(store[Owner(t)].categories), newPrice \in InventoryPrices :
               UpdatePrice(t, index, newPrice)
        \/ \E ok \in BOOLEAN : UpdatePriceRequest(t, ok)
        \/ UpdatePriceCatch(t)
        \/ \E index \in 1 .. Len(store[Owner(t)].categories) : DeleteCategory(t, index)
        \/ \E ok \in BOOLEAN : DeleteCategoryRequest(t, ok)
        \/ DeleteCategoryCatch(t)
        \/ \E price \in InventoryPrices : AddCategory(t, price)
        \/ \E outcome \in {"ok", "error", "throw"} : AddCategoryInsert(t, outcome)
        \/ AddCategoryError(t)
        \/ AddCategoryCatch(t)
        \/ SelectCategories(t)
        \/ SelectSales(t)
        \/ SelectBalances(t)
        \/ FetchResolve(t)

InventorySpec == InventoryInit /\ [][InventoryNext]_vars

\* ---------------------------------------------------------------- stock edits
\* The stock field of the Inventory page: edits, their timeouts and the
\* requests these send, while a cheaper category is being added.
CheaperPrices == {10}

StockEditNext ==
    \E t \in OverlappingTasks :
        \/ \E index \in 1 .. Len(store[Owner(t)].categories), newStock \in InventoryStocks :
               HandleUpdateStock(t, index, newStock)
        \/ Timeout(t)
        \/ \E ok \in BOOLEAN : UpdateStockRequest(t, ok)
        \/ UpdateStockCatch(t)
        \/ \E price \in CheaperPrices : AddCategory(t, price)
        \/ \E outcome \in {"ok", "error", "throw"} : AddCategoryInsert(t, outcome)
        \/ AddCategoryError(t)
        \/ AddCategoryCatch(t)
        \/ SelectCategories(t)
        \/ SelectSales(t)
        \/ SelectBalances(t)
        \/ FetchResolve(t)

StockEditSpec == InventoryInit /\ [][StockEditNext]_vars

\* ---------------------------------------------------------------- synchronization
\* Client A's synchronization layer, with client B selling meanwhile
\* (B's own refresh after its sale is of no interest here and is left
\* pending).
SyncTasks == OverlappingTasks \cup {"t2"}

\* What cached_categories holds from an earlier session: the categories
\* as they were before they were restocked.
StaleCategories == MapSeq(CategoriesResponse, LAMBDA c : [c EXCEPT !.stock = 0])

\* A freshly opened ledger. Client B is live without a change feed;
\* client A either has just loaded the page (with no cache, a cache of
\* which one entry does not parse, or the cache of an earlier session) or
\* is live and subscribed.
SyncInit ==
    /\ categories = [k \in CatIds |-> [price |-> InitialPrice(k), stock |-> MaxStock]]
    /\ shop_balance = 0
    /\ bank_balance = 0
    /\ sales = <<>>
    /\ expenses = <<>>
    /\ deposits = <<>>
    /\ profiles = SignedUp
    /\ notifications = {}
    /\ lock = NoLock
    /\ \E live \in BOOLEAN :
         /\ store = [c \in Clients |->
                       IF c = "A" /\ ~live THEN InitialState
                       ELSE [categories |-> CategoriesResponse, sales |-> SalesResponse,
                             balances |-> [shopBalance |-> shop_balance,
                                           bankBalance |-> bank_balance],
                             initialized |-> TRUE, userProfile |-> TRUE]]
         /\ channel = [c \in Clients |-> IF c = "A" /\ live THEN 1 ELSE 0]
         /\ localStorage \in
              IF live
              THEN {[c \in Clients |-> CacheWrite(store[c].categories, store[c].balances)]}
              ELSE {[c \in Clients |->
                       IF c = "A" THEN items
                       ELSE CacheWrite(store[c].categories, store[c].balances)] :
                    items \in {[cached_categories |-> NoItem,
                                 cached_balances |-> NoItem],
                                [cached_categories |-> Unparseable,
                                 cached_balances |-> Stringify(store["B"].balances)],
                                [cached_categories |-> Stringify(StaleCategories),
                                 cached_balances |-> Unparseable],
                                CacheWrite(StaleCategories, store["B"].balances)}}
    /\ session = [c \in Clients |-> TRUE]
    /\ events = [c \in Clients |-> 0]
    /\ calls = 0
    /\ pc = [t \in SyncTasks |-> "idle"]
    /\ req = [t \in SyncTasks |-> NoReq]
    /\ fetched = [t \in SyncTasks |-> NoFetch]

SyncNext ==
    \/ \E t \in OverlappingTasks :
          \/ InitializeStore(t)
          \/ InitializeStoreResolve(t)
          \/ SetUserProfile(t)
          \/ \E profile \in BOOLEAN : SetUserProfileResolve(t, profile)
          \/ ChangeEvent(t)
          \/ FetchAllData(t)
          \/ SelectCategories(t)
          \/ SelectSales(t)
          \/ SelectBalances(t)
          \/ FetchResolve(t)
    \/ \E q \in Carts(store["B"].categories), cash \in SaleCash, online \in SaleOnline :
          HandleCompleteSale("t2", q, cash, online)
    \/ \E ok \in BOOLEAN : HandleSale("t2", ok)
    \/ SaleCatch("t2")
    \/ HandleSignOut("A")

SyncSpec == SyncInit /\ [][SyncNext]_vars

\* ---------------------------------------------------------------- expenses
\* The users' profiles: the two clients' users are approved (they are
\* signed in) and the third may or may not be; any of them may have signed
\* up as Owner or as Store Manager.
ProfileTables ==
    {p \in [Users -> [designation : Designations, is_approved : BOOLEAN]] :
        \A c \in Clients : p[c].is_approved}

\* The ledger after one cash sale of each category, and both clients on
\* the Expenses page.
ExpenseInit ==
    /\ categories = [k \in CatIds |-> [price |-> InitialPrice(k), stock |-> MaxStock]]
    /\ sales = <<FirstSale>>
    /\ shop_balance = FirstSale.cash
    /\ bank_balance = 0
    /\ expenses = <<>>
    /\ deposits = <<>>
    /\ profiles \in ProfileTables
    /\ notifications = {}
    /\ lock = NoLock
    /\ store = [c \in Clients |->
                  [categories |-> CategoriesResponse, sales |-> SalesResponse,
                   balances |-> [shopBalance |-> shop_balance,
                                 bankBalance |-> bank_balance],
                   initialized |-> TRUE, userProfile |-> TRUE]]
    /\ localStorage = [c \in Clients |->
                         CacheWrite(store[c].categories, store[c].balances)]
    /\ session = [c \in Clients |-> TRUE]
    /\ channel = [c \in Clients |-> 0]
    /\ events = [c \in Clients |-> 0]
    /\ calls = 0
    /\ pc = [t \in Tasks |-> "idle"]
    /\ req = [t \in Tasks |-> NoReq]
    /\ fetched = [t \in Tasks |-> NoFetch]

ExpenseNext ==
    \E t \in Tasks :
        \/ \E cash_amt \in CashAmounts, online_amt \in OnlineAmounts :
               HandleExpenseBegin(t, cash_amt, online_amt)
        \/ HandleExpenseEnd(t)
        \/ \E a \in TotalAmounts, c \in CashAmounts, o \in OnlineAmountField(Owner(t)),
              ok \in BOOLEAN : ExpensesHandleSubmit(t, a, c, o, ok)
        \/ SelectCategories(t)
        \/ SelectSales(t)
        \/ SelectBalances(t)
        \/ FetchResolve(t)

ExpenseSpec == ExpenseInit /\ [][ExpenseNext]_vars

\* ================================================================ claims
LastRow(rows) == rows[Len(rows)]

\* The quantity of category k in the items of a sale.
Sold(items, k) ==
    SumSeq(MapSeq(SelectSeq(items, LAMBDA it : it.id = k), LAMBDA it : it.quantity))

ItemsTotal(items) == SumSeq(MapSeq(items, LAMBDA it : it.price * it.quantity))

SaleCommits == Len(sales') > Len(sales)
ExpenseCommits == Len(expenses') > Len(expenses)
DepositCommits == Len(deposits') > Len(deposits)

\* The task's handler moves on in this step.
Moves(t) == pc'[t] # pc[t] \/ req'[t] # req[t]

\* C1: after every commit of a sale, an expense or a deposit, shop_balance
\* and bank_balance are both >= 0.
C1_BalancesNonNegative == shop_balance >= 0 /\ bank_balance >= 0

\* C2: from shop_balance = 100, of two concurrent expenses of 80 in cash
\* exactly one commits, leaving 20, and the other fails: an expense of 80
\* that commits at balance 100 leaves 20, and none commits at balance 20.
C2_ConcurrentExpenses ==
    [][(ExpenseCommits /\ LastRow(expenses').cash_amount = 80 /\ shop_balance \in {20, 100})
         => (shop_balance = 100 /\ shop_balance' = 20)]_vars

\* What handle_expense alone gives in the C2 scenario: the call served
\* first commits and leaves 20, the one served second fails.
HandleExpenseSerialized ==
    [][\A t \in Tasks :
         (pc[t] = "handle_expense" /\ Moves(t) /\ req[t].cash_amt = 80
            /\ req[t].online_amt = 0)
         => /\ shop_balance = 100 =>
                 (pc'[t] = "fetch" /\ shop_balance' = 20 /\ ExpenseCommits)
            /\ shop_balance = 20 =>
                 (pc'[t] = "failed" /\ req'[t].error = "InsufficientShopBalance"
                    /\ shop_balance' = 20 /\ ~ExpenseCommits)]_vars

\* C3: a deposit whose amount exceeds the shop_balance current at commit
\* time is rejected: no deposit commits with amount > shop_balance.
C3_DepositWithinShopBalance ==
    [][DepositCommits => LastRow(deposits').amount <= shop_balance]_vars

\* C4: every category's stock is >= 0 after every committed sale and every
\* committed stock adjustment.
C4_StockNonNegative == \A k \in DOMAIN categories : categories[k].stock >= 0

\* C4 witness: a sale has just committed and has taken a category's last piece.
C4_Witness ==
    \E t \in Tasks :
        /\ pc[t] = "sale_fetch"
        /\ \E i \in DOMAIN req[t].items : categories[req[t].items[i].id].stock = 0

\* C5: a sale with an item that asks for more than the category's current
\* stock aborts whole: no sale row, no stock decrement, no balance change.
C5_InsufficientStockAborts ==
    [][\A t \in Tasks :
         (/\ pc[t] = "handle_sale"
          /\ Moves(t)
          /\ \E i \in DOMAIN req[t].items :
                req[t].items[i].quantity > categories[req[t].items[i].id].stock)
         => /\ pc'[t] = "sale_error"
            /\ req'[t].error \in {"InsufficientStock", "NetworkError"}
            /\ UNCHANGED server]_vars

\* C5 witness: a two-item sale was refused for one item although the other
\* item had enough stock.
C5_Witness ==
    \E t \in Tasks :
        /\ pc[t] = "sale_error"
        /\ req[t].error = "InsufficientStock"
        /\ Len(req[t].items) = 2
        /\ \E i \in DOMAIN req[t].items :
              req[t].items[i].quantity <= categories[req[t].items[i].id].stock

\* C6: the commit of a sale is one step that appends the sale row, takes
\* each item's quantity from its category's stock, adds payment.cash to
\* shop_balance and payment.online to bank_balance.
C6_SaleCommitAtomic ==
    [][SaleCommits =>
         LET row == LastRow(sales')
         IN /\ sales' = Append(sales, row)
            /\ shop_balance' = shop_balance + row.cash
            /\ bank_balance' = bank_balance + row.online
            /\ DOMAIN categories' = DOMAIN categories
            /\ \A k \in DOMAIN categories :
                  /\ categories'[k].stock = categories[k].stock - Sold(row.items, k)
                  /\ categories'[k].price = categories[k].price]_vars

\* C6 witness: a two-item sale paid partly in cash and partly online has
\* just committed.
C6_Witness ==
    \E t \in Tasks :
        /\ pc[t] = "sale_fetch"
        /\ Len(req[t].items) = 2
        /\ req[t].cash > 0
        /\ req[t].online > 0
        /\ LastRow(sales).cash = req[t].cash

\* C7: every committed expense row has amount = cash_amount + online_amount
\* and its commit takes cash_amount from shop_balance and online_amount
\* from bank_balance.
C7_ExpenseCommitDecrements ==
    [][ExpenseCommits =>
         LET row == LastRow(expenses')
         IN /\ row.amount = row.cash_amount + row.online_amount
            /\ shop_balance' = shop_balance - row.cash_amount
            /\ bank_balance' = bank_balance - row.online_amount]_vars

\* C8: a committed deposit of amount a takes a from shop_balance and adds a
\* to bank_balance, so their sum is unchanged.
C8_DepositConserves ==
    [][DepositCommits =>
         LET a == LastRow(deposits').amount
         IN /\ deposits' = Append(deposits, LastRow(deposits'))
            /\ shop_balance' = shop_balance - a
            /\ bank_balance' = bank_balance + a
            /\ shop_balance' + bank_balance' = shop_balance + bank_balance]_vars

\* C8 witness: a deposit has committed and its amount is in the bank.
C8_Witness ==
    /\ Len(deposits) = 1
    /\ deposits[1].amount > 0
    /\ bank_balance = deposits[1].amount

\* C9: an expense call that fails validation leaves shop_balance,
\* bank_balance, every stock and the expense rows as they were; a call of
\* handle_expense with cash_amount > shop_balance or online_amount >
\* bank_balance does fail.
C9_FailedExpenseChangesNothing ==
    [][\A t \in Tasks :
         /\ (/\ pc[t] = "handle_expense"
             /\ Moves(t)
             /\ (req[t].cash_amt > shop_balance \/ req[t].online_amt > bank_balance))
            => (/\ pc'[t] = "failed"
                /\ req'[t].error \in {"InsufficientShopBalance", "InsufficientBankBalance"})
         /\ (/\ Moves(t)
             /\ pc'[t] = "failed"
             /\ req'[t].op \in {"handle_expense", "Expenses.handleSubmit"})
            => UNCHANGED <<shop_balance, bank_balance, categories, expenses>>]_vars

\* C9 witness: handle_expense has refused an expense for lack of cash in
\* the till while the bank balance would have covered its online part.
C9_Witness ==
    \E t \in Tasks :
        /\ pc[t] = "failed"
        /\ req[t].op = "handle_expense"
        /\ req[t].error = "InsufficientShopBalance"
        /\ shop_balance = 20

\* C10: a sale whose cash + online differs from the sum of price x quantity
\* is refused and changes nothing: none is sent to the ledger, and every
\* committed sale row has cash + online = total = sum of price x quantity.
C10_PaymentEqualsTotal ==
    /\ [](/\ \A i \in DOMAIN sales :
               /\ sales[i].cash + sales[i].online = sales[i].total
               /\ sales[i].total = ItemsTotal(sales[i].items)
          /\ \A t \in Tasks :
               pc[t] = "handle_sale" =>
                 /\ req[t].cash + req[t].online = req[t].total
                 /\ req[t].total = ItemsTotal(req[t].items))
    /\ [][\A t \in Tasks :
            (/\ Moves(t)
             /\ pc'[t] = "failed"
             /\ req'[t].op = "handleCompleteSale"
             /\ req'[t].error = "PaymentMismatch")
            => UNCHANGED server]_vars

\* C10 witness: a sale was refused because the payment did not match.
C10_Witness ==
    \E t \in Tasks :
        /\ pc[t] = "failed"
        /\ req[t].op = "handleCompleteSale"
        /\ req[t].error = "PaymentMismatch"

\* A step of the stored procedure handle_expense, of the rpc handle_sale,
\* of a stock adjustment request.
HandleExpenseStep == \E t \in DOMAIN pc : pc[t] = "handle_expense" /\ Moves(t)
HandleSaleStep == \E t \in DOMAIN pc : pc[t] = "handle_sale" /\ Moves(t)
UpdateStockStep == \E t \in DOMAIN pc : pc[t] = "update_stock" /\ Moves(t)

\* C20: balances change only in a committed sale, expense or deposit
\* procedure, stock changes only in a sale or a stock adjustment, and a
\* sale, expense or deposit row is created only by its procedure.
C20_OnlyProceduresWrite ==
    [][/\ (shop_balance' # shop_balance \/ bank_balance' # bank_balance)
            => \/ SaleCommits /\ HandleSaleStep
               \/ ExpenseCommits /\ HandleExpenseStep
               \/ DepositCommits
       /\ categories' # categories => (SaleCommits \/ UpdateStockStep)
       /\ SaleCommits => HandleSaleStep
       /\ ExpenseCommits => HandleExpenseStep
       /\ DepositCommits =>
            LastRow(deposits').amount = bank_balance' - bank_balance]_vars

\* The local categories with the optimistic change of the dispatcher call
\* r applied to the slice it captured.
OptimisticOf(r) ==
    CASE r.op = "updateStock" ->
           MapSeq(r.captured, LAMBDA c : IF c.id = r.id THEN [c EXCEPT !.stock = r.stock] ELSE c)
      [] r.op = "updatePrice" ->
           MapSeq(r.captured, LAMBDA c : IF c.id = r.id THEN [c EXCEPT !.price = r.price] ELSE c)
      [] r.op = "deleteCategory" ->
           SelectSeq(r.captured, LAMBDA c : c.id # r.id)

Adjusting == {"update_stock", "update_price", "delete_category"}
AdjustFailing == {"update_stock_error", "update_price_error", "delete_category_error"}

\* C11: while the only dispatcher call made is in flight the local
\* categories are its fully applied optimistic state; when its request
\* fails the call puts back exactly the slice it captured and ends with
\* an error (stock 5, optimistic 6, failure gives 5); when its request
\* succeeds the call leaves the local categories as they are.
C11_OptimisticOrCaptured ==
    /\ [](\A t \in OverlappingTasks :
            (calls = 1 /\ pc[t] \in Adjusting \cup AdjustFailing)
            => store[Owner(t)].categories = OptimisticOf(req[t]))
    /\ [][\A t \in OverlappingTasks :
            /\ (pc[t] \in AdjustFailing /\ Moves(t))
               => /\ store'[Owner(t)].categories = req[t].captured
                  /\ pc'[t] = "failed"
                  /\ req'[t].error # "none"
            /\ (pc[t] \in Adjusting /\ pc'[t] = "idle")
               => store' = store]_vars

\* C11 witness: the only call made, a stock adjustment from 5 to 6, has
\* failed, and the local stock is 5 again.
C11_Witness ==
    \E t \in OverlappingTasks :
        /\ calls = 1
        /\ pc[t] = "failed"
        /\ req[t].op = "updateStock"
        /\ Len(store[Owner(t)].categories) = 1
        /\ store[Owner(t)].categories[1].stock = 5

\* The stock the local categories show for the category id.
StockOf(cats, id) ==
    LET row == SelectSeq(cats, LAMBDA c : c.id = id) IN row[1].stock

\* C12: with two stock adjustments of one category in flight, the later
\* one having captured the earlier one's optimistic value, the failure of
\* the earlier call leaves the later call's optimistic value in place.
C12_RollbackKeepsLaterValue ==
    [][\A t, u \in OverlappingTasks :
         (/\ t # u
          /\ pc[t] = "update_stock_error"
          /\ Moves(t)
          /\ pc[u] = "update_stock"
          /\ req[u].id = req[t].id
          /\ StockOf(req[u].captured, req[u].id) = req[t].stock
          /\ StockOf(req[t].captured, req[t].id) # req[t].stock)
         => StockOf(store'[Owner(u)].categories, req[u].id) = req[u].stock]_vars

\* C13: when the remote call of a client mutation fails, by an error value
\* or by a thrown error, the optimistic change is no longer in the local
\* categories when the call ends.
C13_FailureReverts ==
    [][\A t \in OverlappingTasks :
         (Moves(t) /\ pc'[t] = "failed")
         => /\ req'[t].op = "addCategory"
               => ~\E i \in DOMAIN store'[Owner(t)].categories :
                      store'[Owner(t)].categories[i].id = req'[t].id
            /\ req'[t].op \in {"updateStock", "updatePrice", "deleteCategory"}
               => store'[Owner(t)].categories = req[t].captured]_vars

\* The categories, sales and balances a store shows.
Data(state) == <<state.categories, state.sales, state.balances>>

\* fetchAllData gets its last response, with an error among the three or
\* with none.
RefetchFails(t) == Fetching(t) /\ FetchComplete(t) /\ FetchFailed(t) /\ Moves(t)
RefetchSucceeds(t) == Fetching(t) /\ FetchComplete(t) /\ ~FetchFailed(t) /\ Moves(t)

\* C14: when fetchAllData fails, by an error of one of its three selects
\* or for want of an authenticated user, the local categories, sales and
\* balances and the cache entries stay as they were and the call ends
\* with an error.
C14_FailedRefetchReported ==
    [][\A t \in OverlappingTasks :
         LET c == Owner(t)
         IN /\ (RefetchFails(t) /\ pc[t] \in {"fetch", "init_fetch"})
               => /\ Data(store'[c]) = Data(store[c])
                  /\ localStorage'[c] = localStorage[c]
                  /\ pc'[t] = "failed"
            /\ (Ready(t) /\ ~session[c] /\ Moves(t) /\ req'[t].op = "fetchAllData")
               => /\ Data(store'[c]) = Data(store[c])
                  /\ localStorage'[c] = localStorage[c]
                  /\ pc'[t] = "failed"]_vars

\* C15: initialized does not become true as the outcome of a failure:
\* it is false when initializeStore has failed, and a failed fetchAllData
\* does not turn it true.
C15_FailureLeavesUninitialized ==
    [][\A t \in OverlappingTasks :
         (Moves(t) /\ pc'[t] = "failed")
         => /\ req'[t].op = "initializeStore" => ~store'[Owner(t)].initialized
            /\ req'[t].op = "fetchAllData"
               => (store'[Owner(t)].initialized => store[Owner(t)].initialized)]_vars

\* C16: right after hydration the local categories and balances are the
\* cached ones, whenever the cached entry parses; a fetchAllData that
\* succeeds replaces the local categories, sales and balances by the
\* values fetched and writes the same categories and balances to the cache.
C16_CacheThenServer ==
    [][\A t \in OverlappingTasks :
         LET c == Owner(t)
         IN /\ (pc[t] # "hydrate_fetch" /\ pc'[t] = "hydrate_fetch")
               => /\ Parses(localStorage[c].cached_categories)
                     => store'[c].categories = Parse(localStorage[c].cached_categories)
                  /\ Parses(localStorage[c].cached_balances)
                     => store'[c].balances = Parse(localStorage[c].cached_balances)
            /\ RefetchSucceeds(t)
               => /\ Data(store'[c]) = <<fetched[t].categories.data,
                                         fetched[t].sales.data,
                                         fetched[t].balances.data>>
                  /\ localStorage'[c].cached_categories =
                        Stringify(fetched[t].categories.data)
                  /\ localStorage'[c].cached_balances =
                        Stringify(fetched[t].balances.data)]_vars

\* C16 witness: hydrated from a cache that is behind the server, the
\* store shows the cached stock while its first fetch is pending.
C16_Witness ==
    \E t \in OverlappingTasks :
        /\ pc[t] = "hydrate_fetch"
        /\ Parses(localStorage[Owner(t)].cached_categories)
        /\ store[Owner(t)].categories = Parse(localStorage[Owner(t)].cached_categories)
        /\ store[Owner(t)].categories # CategoriesResponse

\* A snapshot of a ledger that only sales have written since it was
\* opened with MaxStock pieces of each category is one committed state
\* iff its balances and stocks are those its own sale rows add up to.
OneCommittedState(state) ==
    /\ state.balances.shopBalance =
          SumSeq(MapSeq(state.sales, LAMBDA sale : sale.cash))
    /\ state.balances.bankBalance =
          SumSeq(MapSeq(state.sales, LAMBDA sale : sale.online))
    /\ \A i \in DOMAIN state.categories :
          state.categories[i].stock =
             MaxStock - SumSeq(MapSeq(state.sales,
                                      LAMBDA sale : Sold(sale.items, state.categories[i].id)))

\* C17: after every fetchAllData that succeeds, the local categories,
\* sales and balances together are one committed state of the server.
C17_RefetchReadsOneState ==
    [][\A t \in OverlappingTasks :
         RefetchSucceeds(t) => OneCommittedState(store'[Owner(t)])]_vars

\* The store of client c shows the server's committed state.
Mirror(c) ==
    /\ store[c].categories = CategoriesResponse
    /\ store[c].sales = SalesResponse
    /\ store[c].balances = [shopBalance |-> shop_balance, bankBalance |-> bank_balance]

\* Client c is live, every change event has been delivered, no
\* fetchAllData of c is in flight and the last one of each task succeeded.
Quiescent(c) ==
    /\ session[c]
    /\ channel[c] > 0
    /\ events[c] = 0
    /\ \A t \in DOMAIN pc : Owner(t) = c => pc[t] = "idle"

\* C18: when the last fetchAllData in flight of a live client succeeds
\* and every change event has been delivered, the client's categories,
\* sales and balances are the server's committed state.
C18_LiveConverges ==
    [][\A t \in OverlappingTasks :
         (pc[t] = "fetch" /\ RefetchSucceeds(t) /\ Quiescent(Owner(t))')
         => Mirror(Owner(t))']_vars

\* C19: once the session has ended the channel is unsubscribed, no change
\* event is delivered and the local categories, sales and balances no
\* longer change.
C19_SignOutUnsubscribes ==
    /\ [](\A c \in Clients : ~session[c] => channel[c] = 0)
    /\ [][\A c \in Clients :
            ~session[c] => /\ events'[c] >= events[c]
                           /\ Data(store'[c]) = Data(store[c])]_vars

\* C21: no two categories of the ledger have the same price and every
\* price is a positive integer, whatever categories were added and
\* whatever prices were changed.
C21_PricesUnique ==
    \A k \in DOMAIN categories :
        /\ categories[k].price > 0
        /\ \A j \in DOMAIN categories : categories[j].price = categories[k].price => j = k

Notified(rows, i) == {n.user_id : n \in {x \in rows : x.expense_id = i}}

\* C23: when an expense row is committed, notifications for it go to all
\* approved users other than the creator if the creator is a Store
\* Manager, and to the Owners other than the creator if the creator is an
\* Owner; never to the creator; the notifications of earlier expenses stay.
C23_ExpenseNotified ==
    [][ExpenseCommits =>
         LET i == Len(expenses')
             creator == expenses'[i].created_by
             others == DOMAIN profiles \ {creator}
         IN /\ profiles[creator].designation = "Store Manager"
               => Notified(notifications', i) = {u \in others : profiles[u].is_approved}
            /\ profiles[creator].designation = "Owner"
               => Notified(notifications', i) =
                     {u \in others : profiles[u].designation = "Owner"}
            /\ creator \notin Notified(notifications', i)
            /\ \A j \in DOMAIN expenses :
                  Notified(notifications', j) = Notified(notifications, j)]_vars

\* C23 witness: a Store Manager's expense has reached an approved user
\* and passed over an unapproved one, and an Owner's expense has reached
\* another Owner.
C23_Witness ==
    \E i, j \in DOMAIN expenses :
        /\ profiles[expenses[i].created_by].designation = "Store Manager"
        /\ Notified(notifications, i) # {}
        /\ \E u \in Users : ~profiles[u].is_approved /\ u \notin Notified(notifications, i)
        /\ profiles[expenses[j].created_by].designation = "Owner"
        /\ Notified(notifications, j) # {}

\* The timeout of task t fires.
Dispatches(t) == pc[t] = "debounce" /\ pc'[t] # "debounce"

\* C24: stock edits to one category that fall into the same debounce
\* window are coalesced: when the update for an edit is dispatched, no
\* other edit to that category is waiting for its own dispatch.
C24_EditsCoalesced ==
    [][\A t \in OverlappingTasks :
         Dispatches(t)
         => ~\E u \in OverlappingTasks :
                /\ u # t
                /\ Owner(u) = Owner(t)
                /\ pc[u] = "debounce"
                /\ req[u].category.id = req[t].category.id]_vars

\* C28: the update dispatched for an edit of category C goes to
\* category C: when the timeout fires with no other handler running (the
\* local list is the one the last fetchAllData installed), the request
\* carries the id of the category the user edited.
C28_DispatchTargetsEdited ==
    [][\A t \in OverlappingTasks :
         (Dispatches(t) /\ \A u \in OverlappingTasks \ {t} : pc[u] = "idle")
         => /\ pc'[t] = "update_stock"
            /\ req'[t].id = req[t].category.id]_vars

\* C25: setUserProfile, given a profile, leaves the categories as they
\* were if cached_categories does not parse, and the balances if
\* cached_balances does not, and goes on to start fetchAllData.
C25_UnparseableIsCacheMiss ==
    [][\A t \in OverlappingTasks :
         LET c == Owner(t)
         IN (Moves(t) /\ ~store[c].userProfile /\ store'[c].userProfile)
            => /\ localStorage[c].cached_categories = Unparseable
                  => store'[c].categories = store[c].categories
               /\ localStorage[c].cached_balances = Unparseable
                  => store'[c].balances = store[c].balances
               /\ pc'[t] = "hydrate_fetch"
               /\ fetched'[t] = NoFetch]_vars

\* C25 witness: hydrated over a cached_categories that does not parse,
\* the store still has its initial categories and the refetch has its
\* first response.
C25_Witness ==
    \E t \in OverlappingTasks :
        /\ pc[t] = "hydrate_fetch"
        /\ localStorage[Owner(t)].cached_categories = Unparseable
        /\ store[Owner(t)].userProfile
        /\ store[Owner(t)].categories = InitialState.categories
        /\ fetched[t].categories.status = "ok"

\* C26: once handle_sale has committed the sale, the failure of the
\* fetchAllData that follows does not put back the local categories of
\* before the sale: it leaves the local categories as they are.
C26_CommittedSaleNotReverted ==
    [][\A t \in DOMAIN pc :
         (pc[t] = "sale_fetch" /\ RefetchFails(t))
         => store'[Owner(t)].categories = store[Owner(t)].categories]_vars

\* The local categories other than the one with the given id.
Others(cats, id) == {cats[i] : i \in {j \in DOMAIN cats : cats[j].id # id}}

\* C27: the rollback of a failed updateStock, updatePrice or
\* deleteCategory leaves the local values of all other categories as
\* they were just before it; checked for a rollback with no other handler
\* running, so that those values are the ones fetchAllData installed.
C27_RollbackLeavesOthers ==
    [][\A t \in OverlappingTasks :
         (/\ pc[t] \in AdjustFailing
          /\ Moves(t)
          /\ \A u \in OverlappingTasks \ {t} : pc[u] = "idle")
         => Others(store'[Owner(t)].categories, req[t].id) =
               Others(store[Owner(t)].categories, req[t].id)]_vars

\* C29: a client has at most one 'store-changes' channel subscribed,
\* whatever calls of initializeStore and setUserProfile it has made.
C29_OneSubscription == \A c \in Clients : channel[c] <= 1

\* C30: cached_categories and cached_balances change only in the step in
\* which a fetchAllData of the client succeeds, and are then the
\* categories and balances that fetchAllData has fetched; no optimistic
\* update and no rollback writes them.
C30_CacheOnlyFromRefetch ==
    [][\A c \in Clients :
         /\ localStorage'[c] # localStorage[c]
            => \E t \in DOMAIN pc : Owner(t) = c /\ RefetchSucceeds(t)
         /\ \A t \in DOMAIN pc :
               (Owner(t) = c /\ RefetchSucceeds(t))
               => localStorage'[c] = [cached_categories |->
                                         Stringify(fetched[t].categories.data),
                                      cached_balances |->
                                         Stringify(fetched[t].balances.data)]]_vars

\* C30 witness: the cache holds the two categories the last fetchAllData
\* fetched while the store shows an optimistic stock that no fetch has
\* confirmed.
C30_Witness ==
    \E t \in OverlappingTasks :
        /\ pc[t] = "update_stock"
        /\ Len(Parse(localStorage[Owner(t)].cached_categories)) = 2
        /\ Parse(localStorage[Owner(t)].cached_categories) = req[t].captured
        /\ store[Owner(t)].categories # req[t].captured
====
